---- MODULE Spec2Model ----
(***************************************************************************)
(* Change detection and Telegram notification of iat-timetable.           *)
(*                                                                         *)
(* One run of compose.py main() processes a number of (group, week)       *)
(* batches.  For each batch the callbacks of student_callbacks run in     *)
(* order: sqlite_callback (the Diff Engine, "reconcile") and then         *)
(* telegram_callback.callback (select the updated days, read the          *)
(* subscribers, send, advance last_checked).  db.commit() is called once  *)
(* after get_timetable() has processed every batch.                        *)
(*                                                                         *)
(* sqlite_callback lives in the egov66_timetable package; only its call   *)
(* is in src/compose.py.  It is modelled from section 4.1 of spec.md,     *)
(* with the policy "an obsolete row is never revisited: a slot that       *)
(* reappears gets a new row".                                              *)
(*                                                                         *)
(* Time: CURRENT_TIMESTAMP is modelled by the counter now.  Two batches   *)
(* are at least one tick apart (every batch fetches the timetable over    *)
(* the network first); the checkpoint write of a batch may fall in the    *)
(* tick of its reconcile or in the next one.                               *)
(***************************************************************************)
EXTENDS Integers, Sequences, FiniteSets, TLC

\* ---------------------------------------------------------------- bounds
MaxTime == 4          \* the clock stops the model at this tick
MaxRows == 2          \* rows the lesson table may hold
MaxSlot == 9          \* largest lesson number of a day handed to compose_message

\* ---------------------------------------------------------- input domains
Groups   == {"G1", "G2"}
Weeks    == {"W1"}
Days     == {0, 1}
Slots    == {0, 1}
Contents == {<<"101", "Math">>, <<"", "PE">>}     \* (classroom, name)
ChatIds  == {111, 222}

\* the key order in which a timetable is walked (day, then lesson number)
KeyOrder == <<<<0, 0>>, <<0, 1>>, <<1, 0>>, <<1, 1>>>>

NULL == 0             \* obsolete_since IS NULL; the clock starts at 1

Permanent == {"ChatIdInvalidError", "PeerIdInvalidError",
              "UserIsBlockedError", "ValueError"}
Outcomes  == {"ok", "FloodWaitError"} \cup Permanent

\* a day entry maps some lesson numbers to a (classroom, name) pair
DayEntries == {e \in UNION {[S -> Contents] : S \in SUBSET Slots} :
                 Cardinality(DOMAIN e) <= 1}
\* the timetables fed to the model: G1 has lessons on both days (day 0 may
\* start with a free first lesson), the other group has one lesson at most
Timetables(g) ==
  {tt \in [Days -> DayEntries] :
     /\ 1 \notin DOMAIN tt[1]
     /\ g # "G1" => (tt[1] = <<>> /\ 1 \notin DOMAIN tt[0])}

VARIABLES
  lesson,          \* table lesson: sequence of rows, the id is the index
  telegram_chat,   \* table telegram_chat: chat id -> [group_id, subscribed]
  committed,       \* what the last db.commit() wrote: [lesson, telegram_chat]
  now,             \* CURRENT_TIMESTAMP
  pc,              \* position of main() / callback()
  group, week,     \* arguments of the batch being processed
  timetable,       \* Timetable[Lesson] of the batch: day -> num -> <<id, content>>
  updated_days,    \* local of callback(), line 96
  subscribers,     \* local of callback(), line 110
  days_left,       \* days the outer loop has not visited yet
  day_num,         \* loop variable of the outer loop
  chats_left,      \* chats the inner loop has not visited yet
  attempts,        \* send_message calls of this batch: <<day, chat, kind>>
  outcome,         \* how the last callback() ended: "none", "returned", "raised"
  failures,        \* batches get_timetable() reports as failed in this run
  processed        \* batches get_timetable() has started in this run

vars == <<lesson, telegram_chat, committed, now, pc, group, week, timetable,
          updated_days, subscribers, days_left, day_num, chats_left,
          attempts, outcome, failures, processed>>

\* ------------------------------------------------------------ Diff Engine
Row(g, w, d, s, c, t) ==
  [group_id |-> g, week_id |-> w, day_num |-> d, lesson_num |-> s,
   content |-> c, created_at |-> t, last_updated |-> t, last_checked |-> t,
   obsolete_since |-> NULL]

\* ids of the non-obsolete rows of one (group, week, day, slot)
Live(les, g, w, d, s) ==
  {i \in 1..Len(les) : /\ les[i].group_id = g /\ les[i].week_id = w
                       /\ les[i].day_num = d /\ les[i].lesson_num = s
                       /\ les[i].obsolete_since = NULL}

\* mutant: last_updated is written also when the content is the same
UpsertOne_touch(les, g, w, d, s, c, t) ==
  LET live == Live(les, g, w, d, s) IN
  IF live = {} THEN Append(les, Row(g, w, d, s, c, t))
  ELSE LET i == CHOOSE j \in live : TRUE IN
       [les EXCEPT ![i].content = c, ![i].last_updated = t]

UpsertOne(les, g, w, d, s, c, t) ==
  LET live == Live(les, g, w, d, s) IN
  IF live = {} THEN Append(les, Row(g, w, d, s, c, t))
  ELSE LET i == CHOOSE j \in live : TRUE IN
       IF les[i].content = c THEN les
       ELSE [les EXCEPT ![i].content = c, ![i].last_updated = t]

RECURSIVE Upsert(_, _, _, _, _, _)
Upsert(les, g, w, tt, t, k) ==
  IF k > Len(KeyOrder) THEN les
  ELSE LET d == KeyOrder[k][1]
           s == KeyOrder[k][2]
       IN  IF s \in DOMAIN tt[d]
           THEN Upsert(UpsertOne(les, g, w, d, s, tt[d][s], t), g, w, tt, t, k + 1)
           ELSE Upsert(les, g, w, tt, t, k + 1)

MarkObsolete(les, g, w, tt, t) ==
  [i \in 1..Len(les) |->
     IF /\ les[i].group_id = g /\ les[i].week_id = w
        /\ les[i].obsolete_since = NULL
        /\ les[i].lesson_num \notin DOMAIN tt[les[i].day_num]
     THEN [les[i] EXCEPT !.obsolete_since = t]
     ELSE les[i]]

reconcile(les, g, w, tt, t) == MarkObsolete(Upsert(les, g, w, tt, t, 1), g, w, tt, t)

\* the Timetable[Lesson] handed to the next callback: (id, (classroom, name))
WithIds(les, g, w, tt) ==
  [d \in Days |->
     [s \in DOMAIN tt[d] |->
        <<CHOOSE i \in Live(les, g, w, d, s) : TRUE, tt[d][s]>>]]

\* ------------------------------------------------------ telegram_callback
\* mutant: the query without "AND week_id = ?"
AffectedDays_anyWeek(les, g, w) ==
  {les[i].day_num : i \in {j \in 1..Len(les) :
       /\ les[j].group_id = g
       /\ les[j].last_checked < les[j].last_updated
       /\ les[j].obsolete_since = NULL}}

\* mutant: the query without "AND obsolete_since IS NULL"
AffectedDays_withObsolete(les, g, w) ==
  {les[i].day_num : i \in {j \in 1..Len(les) :
       /\ les[j].group_id = g /\ les[j].week_id = w
       /\ les[j].last_checked < les[j].last_updated}}

\* SELECT DISTINCT day_num ... last_checked < last_updated AND obsolete_since IS NULL
AffectedDays(les, g, w) ==
  {les[i].day_num : i \in {j \in 1..Len(les) :
       /\ les[j].group_id = g /\ les[j].week_id = w
       /\ les[j].last_checked < les[j].last_updated
       /\ les[j].obsolete_since = NULL}}

\* SELECT id FROM telegram_chat WHERE group_id = ? AND subscribed = TRUE
ActiveSubscribers(chats, g) ==
  {c \in DOMAIN chats : chats[c].group_id = g /\ chats[c].subscribed}

\* mutant: the UPDATE has no WHERE clause
Unsubscribe_all(chats, c) ==
  [x \in DOMAIN chats |-> [chats[x] EXCEPT !.subscribed = FALSE]]

\* mutant: the UPDATE matches no row (wrong id column)
Unsubscribe_noRow(chats, c) == chats

\* mutant: SET subscribed = NOT subscribed
Unsubscribe_toggle(chats, c) ==
  [x \in DOMAIN chats |->
     IF x = c THEN [chats[x] EXCEPT !.subscribed = ~chats[x].subscribed] ELSE chats[x]]

\* UPDATE telegram_chat SET subscribed = FALSE WHERE id = ?
Unsubscribe(chats, c) ==
  [x \in DOMAIN chats |->
     IF x = c THEN [chats[x] EXCEPT !.subscribed = FALSE] ELSE chats[x]]

\* mutant: the inner loop runs the subscriber query again for every day
LoopSubscribers_requery(subs, chats, g) == ActiveSubscribers(chats, g)

\* for (chat_id,) in subscribers: the list fetched before the loops
LoopSubscribers(subs, chats, g) == subs

\* mutant: no except clause
Caught_none(o) == FALSE

\* mutant: a bare "except Exception"
Caught_all(o) == TRUE

\* the except clause of the inner loop
Caught(o) == o \in Permanent

Kind(o) == IF o = "ok" THEN "ok" ELSE IF o \in Permanent THEN "permanent" ELSE "transient"

\* mutant: the comprehension skips the first day of the timetable
LessonIds_skipFirstDay(tt) ==
  UNION {{tt[d][s][1] : s \in DOMAIN tt[d]} : d \in {x \in DOMAIN tt : x # 0}}

\* lesson[0] for day in timetable for lesson in day.values()
LessonIds(tt) == UNION {{tt[d][s][1] : s \in DOMAIN tt[d]} : d \in DOMAIN tt}

\* mutant: the UPDATE has no WHERE clause
CommitChecked_allRows(les, ids, t) ==
  [i \in 1..Len(les) |-> [les[i] EXCEPT !.last_checked = t]]

\* mutant: last_checked is set to a timestamp taken before the batch
CommitChecked_stale(les, ids, t) ==
  [i \in 1..Len(les) |->
     IF i \in ids THEN [les[i] EXCEPT !.last_checked = t - 1] ELSE les[i]]

\* UPDATE lesson SET last_checked = CURRENT_TIMESTAMP WHERE id = ?  (executemany)
CommitChecked(les, ids, t) ==
  [i \in 1..Len(les) |->
     IF i \in ids THEN [les[i] EXCEPT !.last_checked = t] ELSE les[i]]

Max(S) == CHOOSE m \in S : \A x \in S : x <= m
Min(S) == IF S = {} THEN 0 ELSE CHOOSE m \in S : \A x \in S : m <= x

\* EMOJI_DIGITS: the keycap of digit num, for num in range(10)
EMOJI_DIGITS == [num \in 0..9 |-> num]

\* mutant: the loop is "for lesson_num in range(1, max(...) + 1)"
compose_message_from1(tt, d) ==
  [n \in 1..Max(DOMAIN tt[d]) |->
     LET lesson_num  == n
         this_lesson == IF lesson_num \in DOMAIN tt[d] THEN tt[d][lesson_num]
                        ELSE <<NULL, <<"", "-">>>>
         classroom   == this_lesson[2][1]
         name        == this_lesson[2][2]
     IN  IF classroom # "" THEN <<EMOJI_DIGITS[lesson_num], name, classroom>>
         ELSE <<EMOJI_DIGITS[lesson_num], name>>]

\* compose_message: the lesson lines after the header, one per pass of the
\* loop; a line is (marker, name) or (marker, name, classroom); "-" stands
\* for the dash of the placeholder
compose_message(tt, d) ==
  [n \in 1..(Max(DOMAIN tt[d]) + 1) |->
     LET lesson_num  == n - 1
         this_lesson == IF lesson_num \in DOMAIN tt[d] THEN tt[d][lesson_num]
                        ELSE <<NULL, <<"", "-">>>>
         classroom   == this_lesson[2][1]
         name        == this_lesson[2][2]
     IN  IF classroom # "" THEN <<EMOJI_DIGITS[lesson_num + 1], name, classroom>>
         ELSE <<EMOJI_DIGITS[lesson_num + 1], name>>]

\* compose_message returns: max() of an empty day raises ValueError, and
\* EMOJI_DIGITS[lesson_num + 1] raises IndexError past the last keycap
Composable(tt, d) ==
  /\ DOMAIN tt[d] # {}
  /\ Max(DOMAIN tt[d]) + 1 \in DOMAIN EMOJI_DIGITS

\* mutant: the UPDATE is indented into the outer loop
LoopsDone_early(p, dl) == p = "days"

\* both for loops are exhausted: control reaches line 136
LoopsDone(p, dl) == p = "days" /\ dl = {}

\* the Timetable the collaborator parsed, without the lesson ids
Strip(tt) == [d \in DOMAIN tt |-> [s \in DOMAIN tt[d] |-> tt[d][s][2]]]

\* ------------------------------------------------------------------ state
EmptyTimetable == [d \in Days |-> <<>>]

Registries == [ChatIds -> [group_id : Groups, subscribed : BOOLEAN]]

Init ==
  /\ lesson = <<>>
  /\ telegram_chat \in {r \in Registries : /\ \A c \in ChatIds : r[c].subscribed
                                          /\ r[111].group_id = "G1"}
  /\ committed = [lesson |-> lesson, telegram_chat |-> telegram_chat]
  /\ now = 1
  /\ pc = "idle"
  /\ group = "G1" /\ week = "W1"
  /\ timetable = EmptyTimetable
  /\ updated_days = {} /\ subscribers = {}
  /\ days_left = {} /\ day_num = 0 /\ chats_left = {}
  /\ attempts = {}
  /\ outcome = "none"
  /\ failures = {}
  /\ processed = {}

locals == <<updated_days, subscribers, days_left, day_num, chats_left>>
batch  == <<group, week, timetable>>
store  == <<lesson, telegram_chat>>

\* main() up to get_timetable(): a run starts
StartRun ==
  /\ pc = "idle"
  /\ pc' = "run"
  /\ failures' = {}
  /\ processed' = {}
  /\ UNCHANGED <<store, committed, now, batch, locals, attempts, outcome>>

\* sqlite_callback(cursor)(timetable, group, week), first callback of a batch
Reconcile ==
  /\ pc = "run"
  /\ now < MaxTime
  /\ \E g \in Groups, w \in Weeks : \E tt \in Timetables(g) :
       LET les == reconcile(lesson, g, w, tt, now + 1) IN
       /\ <<g, w>> \notin processed
       /\ Len(les) <= MaxRows
       /\ processed' = processed \cup {<<g, w>>}
       /\ lesson' = les
       /\ group' = g /\ week' = w
       /\ timetable' = WithIds(les, g, w, tt)
  /\ now' = now + 1
  /\ pc' = "callback"
  /\ updated_days' = {} /\ subscribers' = {}
  /\ days_left' = {} /\ day_num' = 0 /\ chats_left' = {}
  /\ attempts' = {}
  /\ outcome' = "none"
  /\ UNCHANGED <<telegram_chat, committed, failures>>

\* callback(), lines 83-110: the two SELECTs
Select ==
  /\ pc = "callback"
  /\ updated_days' = AffectedDays(lesson, group, week)
  /\ subscribers' = ActiveSubscribers(telegram_chat, group)
  /\ days_left' = updated_days'
  /\ chats_left' = {}
  /\ pc' = "days"
  /\ UNCHANGED <<store, committed, now, batch, day_num, attempts, outcome, failures,
                 processed>>

\* the exception leaves callback(); get_timetable() records the failure
Raise ==
  /\ pc' = "run"
  /\ outcome' = "raised"
  /\ failures' = failures \cup {<<group, week>>}
  /\ days_left' = {} /\ chats_left' = {}

\* line 115-116: next day of the outer loop, compose its message
NextDay ==
  /\ pc = "days"
  /\ \E d \in {Min(days_left)} \cap days_left :
       /\ day_num' = d
       /\ IF Composable(timetable, d)
          THEN /\ days_left' = days_left \ {d}
               /\ chats_left' = LoopSubscribers(subscribers, telegram_chat, group)
               /\ pc' = IF chats_left' = {} THEN "days" ELSE "chats"
               /\ UNCHANGED <<outcome, failures>>
          ELSE Raise
  /\ UNCHANGED <<store, committed, now, batch, updated_days, subscribers, attempts,
                 processed>>

\* lines 117-133: one send_message call and its except clause
Send ==
  /\ pc = "chats"
  /\ \E chat_id \in chats_left, o \in Outcomes :
       /\ attempts' = attempts \cup {<<day_num, chat_id, Kind(o)>>}
       /\ IF o = "ok"
          THEN /\ chats_left' = chats_left \ {chat_id}
               /\ pc' = IF chats_left' = {} THEN "days" ELSE "chats"
               /\ UNCHANGED <<telegram_chat, days_left, outcome, failures>>
          ELSE IF Caught(o)
          THEN /\ telegram_chat' = Unsubscribe(telegram_chat, chat_id)
               /\ chats_left' = chats_left \ {chat_id}
               /\ pc' = IF chats_left' = {} THEN "days" ELSE "chats"
               /\ UNCHANGED <<days_left, outcome, failures>>
          ELSE /\ Raise
               /\ UNCHANGED telegram_chat
  /\ UNCHANGED <<lesson, committed, now, batch, updated_days, subscribers, day_num,
                 processed>>

\* lines 136-147: the loops are over, last_checked is advanced
Checkpoint ==
  /\ LoopsDone(pc, days_left)
  /\ \E t \in {now, now + 1} :
       /\ t <= MaxTime
       /\ now' = t
       /\ lesson' = CommitChecked(lesson, LessonIds(timetable), t)
  /\ pc' = "run"
  /\ outcome' = "returned"
  /\ UNCHANGED <<telegram_chat, committed, batch, locals, attempts, failures,
                 processed>>

\* compose.py line 260: db.commit() after get_timetable() returned
EndRun ==
  /\ pc = "run"
  /\ committed' = [lesson |-> lesson, telegram_chat |-> telegram_chat]
  /\ pc' = "idle"
  /\ group' = "G1" /\ week' = "W1" /\ timetable' = EmptyTimetable
  /\ updated_days' = {} /\ subscribers' = {}
  /\ days_left' = {} /\ day_num' = 0 /\ chats_left' = {}
  /\ attempts' = {}
  /\ outcome' = "none"
  /\ failures' = {} /\ processed' = {}
  /\ UNCHANGED <<store, now>>

\* the process dies before db.commit(): sqlite rolls the open transaction back
Crash ==
  /\ pc # "idle"
  /\ lesson' = committed.lesson
  /\ telegram_chat' = committed.telegram_chat
  /\ pc' = "idle"
  /\ group' = "G1" /\ week' = "W1" /\ timetable' = EmptyTimetable
  /\ updated_days' = {} /\ subscribers' = {}
  /\ days_left' = {} /\ day_num' = 0 /\ chats_left' = {}
  /\ attempts' = {}
  /\ outcome' = "none"
  /\ failures' = {} /\ processed' = {}
  /\ UNCHANGED <<committed, now>>

Next == StartRun \/ Reconcile \/ Select \/ NextDay \/ Send \/ Checkpoint
        \/ EndRun \/ Crash

Spec == Init /\ [][Next]_vars

\* =================================================================== claims
Pairs(att)  == {<<a[1], a[2]>> : a \in att}
OfKind(att, k) == {a \in att : a[3] = k}
Todo        == (days_left \X subscribers) \cup ({day_num} \X chats_left)
AllPairs    == updated_days \X subscribers
Sending     == pc \in {"days", "chats"}
IsPending(r) == r.last_checked < r.last_updated /\ r.obsolete_since = NULL
ReconcileStep == pc = "run" /\ pc' = "callback"
SelectStep    == pc = "callback" /\ pc' = "days"
RollbackStep  == pc # "idle" /\ pc' = "idle" /\ committed' = committed

\* C1 - Monotonic notification: a row with last_checked >= last_updated keeps
\* that through every step of reconcile, select, notify and checkpoint,
\* except a reconcile that changes its content and bumps last_updated; and a
\* day is selected only for a row with last_checked < last_updated.
C1_MonotonicNotification ==
  [][ /\ ~RollbackStep =>
           \A i \in 1..Len(lesson) :
             (/\ i <= Len(lesson')
              /\ lesson[i].last_checked >= lesson[i].last_updated
              /\ lesson'[i].last_checked < lesson'[i].last_updated)
             => /\ ReconcileStep
                /\ lesson'[i].content # lesson[i].content
                /\ lesson'[i].last_updated > lesson[i].last_updated
      /\ SelectStep =>
           \A d \in updated_days' :
             \E i \in 1..Len(lesson) :
               /\ lesson[i].group_id = group /\ lesson[i].week_id = week
               /\ lesson[i].day_num = d
               /\ lesson[i].last_checked < lesson[i].last_updated
    ]_vars

\* a changed lesson was notified and checked, and the batch returned
C1_Witness ==
  /\ pc = "run" /\ outcome = "returned"
  /\ \E i \in 1..Len(lesson) :
       /\ lesson[i].last_updated > lesson[i].created_at
       /\ lesson[i].last_checked >= lesson[i].last_updated

\* what a batch that stops here leaves for the next run: after a raised
\* failure the store as it is, after a crash the committed store
StillPending ==
  LET tt == Strip(timetable) IN
  /\ AffectedDays(lesson, group, week) = updated_days
  /\ updated_days \subseteq
       AffectedDays(reconcile(lesson, group, week, tt, now + 1), group, week)
  /\ updated_days \subseteq
       AffectedDays(reconcile(committed.lesson, group, week, tt, now + 1), group, week)

\* C2 - At-least-once delivery: every delivery attempt of a batch comes
\* before its checkpoint write: while the batch is sending, and after it
\* stopped with a raised failure, the days it selected are still pending in
\* the store, and the next run with the same timetable selects them again,
\* from the store as it is (raised failure) and from the committed store
\* (crash, rollback); the batch has returned, with last_checked advanced,
\* only when every (day, recipient) pair has been attempted.
C2_AtLeastOnce ==
  /\ (Sending \/ outcome = "raised") => StillPending
  /\ outcome = "returned" =>
       /\ Pairs(attempts) = AllPairs
       /\ days_left = {} /\ chats_left = {}

\* a delivery succeeded, a later one raised: the batch stopped before line 136
C2_Witness ==
  /\ outcome = "raised"
  /\ OfKind(attempts, "ok") # {}
  /\ OfKind(attempts, "transient") # {}

\* C3 - End-to-end change detection, as claimed: a reconcile that inserts a
\* lesson on day d makes affected_days contain d; a reconcile with the
\* identical timetable after notify and checkpoint leaves it empty; a
\* reconcile that changes the content of a lesson makes it contain d again.
C3_EndToEnd ==
  [][ ReconcileStep =>
        LET ad == AffectedDays(lesson', group', week') IN
        /\ \A i \in (Len(lesson) + 1)..Len(lesson') : lesson'[i].day_num \in ad
        /\ (lesson' = lesson /\ AffectedDays(lesson, group', week') = {}) => ad = {}
        /\ \A i \in 1..Len(lesson) :
             lesson'[i].content # lesson[i].content => lesson'[i].day_num \in ad
    ]_vars

\* C4 - Fan-out isolation: while a batch without transient failure is
\* sending, every (affected day, recipient) pair is either attempted or still
\* ahead in the loops, whatever permanent failures occurred, and when it
\* returns every pair has been attempted; a batch is never aborted without a
\* transient failure.
C4_FanOutIsolation ==
  /\ (Sending \/ outcome = "returned") => Pairs(attempts) \cup Todo = AllPairs
  /\ outcome = "returned" => Pairs(attempts) = AllPairs
  /\ outcome = "raised" => OfKind(attempts, "transient") # {}

\* a permanent failure on day 0, then a delivery to another chat on day 1
C4_Witness ==
  /\ outcome = "returned"
  /\ \E c1, c2 \in subscribers :
       /\ c1 # c2
       /\ <<0, c1, "permanent">> \in attempts
       /\ <<1, c2, "ok">> \in attempts
       /\ <<1, c1, "ok">> \in attempts

\* C5 - Self-pruning: a recipient whose delivery raised a permanent failure
\* in this batch is unsubscribed and no longer an active subscriber of the
\* group; the recipients of the batch without such a failure are still
\* active; and without a transient failure the batch is not reported failed.
C5_SelfPruning ==
  /\ \A a \in OfKind(attempts, "permanent") :
       /\ ~telegram_chat[a[2]].subscribed
       /\ a[2] \notin ActiveSubscribers(telegram_chat, group)
  /\ (Sending \/ outcome # "none") =>
       \A c \in subscribers :
         (\A a \in OfKind(attempts, "permanent") : a[2] # c)
         => c \in ActiveSubscribers(telegram_chat, group)
  /\ (OfKind(attempts, "permanent") # {} /\ OfKind(attempts, "transient") = {})
       => /\ outcome # "raised"
          /\ <<group, week>> \notin failures

\* after the batch one of two recipients is pruned, the other is still active
C5_Witness ==
  /\ outcome = "returned"
  /\ \E c1, c2 \in subscribers :
       /\ c1 # c2
       /\ \E d \in Days : <<d, c1, "permanent">> \in attempts
       /\ ActiveSubscribers(telegram_chat, group) = {c2}

C8_IdempotentReconcile ==
  pc = "callback" =>
    reconcile(lesson, group, week, Strip(timetable), now + 1) = lesson

\* the first reconcile inserted a row, changed one and made one obsolete
C8_Witness ==
  /\ pc = "callback"
  /\ \E i, j \in 1..Len(lesson) :
       /\ lesson[i].obsolete_since = now
       /\ lesson[j].last_updated = now /\ lesson[j].created_at < now

\* C9 - Obsolescence is never lost: a reconcile sets obsolete_since on every
\* live row of the batch whose (day, slot) is absent from the timetable;
\* obsolete_since, once set, stays as it is; and a day is selected only for a
\* pending row that is not obsolete.
C9_Obsolescence ==
  [][ /\ ReconcileStep =>
           \A i \in 1..Len(lesson) :
             (/\ lesson[i].group_id = group' /\ lesson[i].week_id = week'
              /\ lesson[i].obsolete_since = NULL
              /\ lesson[i].lesson_num \notin DOMAIN timetable'[lesson[i].day_num])
             => lesson'[i].obsolete_since = now'
      /\ ~RollbackStep =>
           \A i \in 1..Len(lesson) :
             lesson[i].obsolete_since # NULL
             => /\ i <= Len(lesson')
                /\ lesson'[i].obsolete_since = lesson[i].obsolete_since
      /\ SelectStep =>
           \A d \in updated_days' :
             \E i \in 1..Len(lesson) :
               /\ lesson[i].group_id = group /\ lesson[i].week_id = week
               /\ lesson[i].day_num = d
               /\ IsPending(lesson[i])
    ]_vars

\* a row that was pending when its slot disappeared: its day is not selected
C9_Witness ==
  /\ pc = "days"
  /\ \E i \in 1..Len(lesson) :
       /\ lesson[i].group_id = group /\ lesson[i].week_id = week
       /\ lesson[i].obsolete_since # NULL
       /\ lesson[i].last_checked < lesson[i].last_updated
       /\ lesson[i].day_num \notin updated_days

\* C10 - Unsubscribe is idempotent: unsubscribing a chat whose flag is
\* already false leaves the registry as it is, and a second permanent
\* failure of a recipient in one batch changes no registry row and does not
\* end the batch.
C10_UnsubscribeIdempotent ==
  [][ /\ \A c \in ChatIds :
           ~telegram_chat'[c].subscribed
           => Unsubscribe(telegram_chat', c) = telegram_chat'
      /\ \A c \in ChatIds, d \in Days :
           (/\ ~telegram_chat[c].subscribed
            /\ <<d, c, "permanent">> \in attempts' \ attempts)
           => /\ telegram_chat' = telegram_chat
              /\ outcome' = outcome
              /\ pc' \in {"days", "chats"}
    ]_vars

\* the same recipient failed permanently on both days of one batch
C10_Witness ==
  \E c \in ChatIds :
    /\ <<0, c, "permanent">> \in attempts
    /\ <<1, c, "permanent">> \in attempts

\* C11 - Batch atomicity, as claimed: the writes of a batch are committed
\* all together or not at all, so the committed store never holds a batch
\* that is reconciled but whose checkpoint is missing: a commit never
\* includes the writes of a batch that failed, and the committed store has
\* no pending lesson.
C11_BatchAtomicity ==
  [][ committed' # committed =>
        /\ failures = {}
        /\ \A g \in Groups, w \in Weeks :
             AffectedDays(committed'.lesson, g, w) = {}
    ]_vars

\* ---------------------------------------------- the Change Selector alone
\* The query of lines 83-96 is a pure read of the lesson table: it is applied
\* to every small table, with rows of both groups and of two weeks.
SelRows ==
  [group_id : Groups, week_id : {"W1", "W2"}, day_num : Days, lesson_num : {0},
   content : {<<"101", "Math">>}, created_at : {1}, last_updated : {1, 2},
   last_checked : {1, 2}, obsolete_since : {NULL, 1}]

SelInit ==
  /\ lesson \in UNION {[1..n -> SelRows] : n \in 0..MaxRows}
  /\ telegram_chat = [c \in ChatIds |-> [group_id |-> "G1", subscribed |-> TRUE]]
  /\ committed = [lesson |-> lesson, telegram_chat |-> telegram_chat]
  /\ now = 2
  /\ pc = "callback"
  /\ group = "G1" /\ week = "W1"
  /\ timetable = EmptyTimetable
  /\ updated_days = {} /\ subscribers = {}
  /\ days_left = {} /\ day_num = 0 /\ chats_left = {}
  /\ attempts = {}
  /\ outcome = "none"
  /\ failures = {}
  /\ processed = {<<"G1", "W1">>}

SpecSelect == SelInit /\ [][Select]_vars

Selected(r, g, w) ==
  /\ r.group_id = g /\ r.week_id = w
  /\ r.last_checked < r.last_updated
  /\ r.obsolete_since = NULL

\* C12 - Change Selector exactness and purity: the set the query returns
\* holds the day of every row of that group and week with last_checked
\* strictly below last_updated and obsolete_since unset, and no other day;
\* rows of another group or week contribute nothing; the query writes no row.
C12_SelectorExact ==
  [][ SelectStep =>
        /\ \A d \in updated_days' :
             \E i \in 1..Len(lesson) :
               Selected(lesson[i], group, week) /\ lesson[i].day_num = d
        /\ \A i \in 1..Len(lesson) :
             Selected(lesson[i], group, week) => lesson[i].day_num \in updated_days'
        /\ lesson' = lesson
        /\ telegram_chat' = telegram_chat
    ]_vars

\* day 0 is selected; a pending row of the same group in another week, on
\* day 1, is not
C12_Witness ==
  /\ pc = "days"
  /\ updated_days = {0}
  /\ \E j \in 1..Len(lesson) :
       /\ lesson[j].group_id = group /\ lesson[j].week_id # week
       /\ lesson[j].day_num = 1
       /\ lesson[j].last_checked < lesson[j].last_updated
       /\ lesson[j].obsolete_since = NULL

\* the kinds of write and send a step can make
DiffWrite ==
  \/ Len(lesson') # Len(lesson)
  \/ \E i \in 1..Len(lesson) :
       \/ lesson'[i].content # lesson[i].content
       \/ lesson'[i].last_updated # lesson[i].last_updated
       \/ lesson'[i].obsolete_since # lesson[i].obsolete_since
       \/ lesson'[i].created_at # lesson[i].created_at
CheckWrite ==
  \E i \in 1..Len(lesson) :
    i <= Len(lesson') /\ lesson'[i].last_checked # lesson[i].last_checked
SendStep == attempts' # attempts /\ attempts' # {}

\* C13 - Stage ordering: in a batch the Diff Engine writes only in the
\* reconcile step, before the selector reads; the selector reads before any
\* send; sends happen only inside the loops, with no checkpoint written yet;
\* last_checked of an existing row is written only when both loops are
\* exhausted, and that step ends the batch.
C13_StageOrdering ==
  [][ ~RollbackStep =>
        /\ DiffWrite => (ReconcileStep /\ ~CheckWrite /\ attempts' = {})
        /\ pc' = "callback" => ReconcileStep
        /\ SelectStep => (attempts = {} /\ outcome = "none" /\ lesson' = lesson)
        /\ (pc' \in {"days", "chats"} /\ pc \notin {"days", "chats"}) => SelectStep
        /\ SendStep => /\ pc = "chats"
                       /\ outcome = "none"
                       /\ lesson' = lesson
        /\ CheckWrite => /\ pc = "days" /\ days_left = {} /\ chats_left = {}
                         /\ Pairs(attempts) = AllPairs
                         /\ attempts' = attempts
                         /\ pc' = "run" /\ outcome' = "returned"
    ]_vars

\* a batch went through all four stages: a lesson was changed, its day was
\* selected, a message was sent, the checkpoint was written
C13_Witness ==
  /\ pc = "run" /\ outcome = "returned"
  /\ OfKind(attempts, "ok") # {}
  /\ \E i \in LessonIds(timetable) :
       /\ lesson[i].day_num \in updated_days
       /\ lesson[i].last_updated > lesson[i].created_at
       /\ lesson[i].last_checked >= lesson[i].last_updated

CheckpointStep == pc = "days" /\ pc' = "run" /\ outcome' = "returned"

\* C14 - Checkpoint Committer effect and frame: the checkpoint sets
\* last_checked to the current time on every row whose id is in the timetable
\* just processed, pending or not; every other row and every other column is
\* left as it was, no row is added or removed, and the registry is untouched.
C14_CheckpointFrame ==
  [][ CheckpointStep =>
        /\ Len(lesson') = Len(lesson)
        /\ \A i \in 1..Len(lesson) :
             IF i \in LessonIds(timetable)
             THEN lesson'[i] = [lesson[i] EXCEPT !.last_checked = now']
             ELSE lesson'[i] = lesson[i]
        /\ telegram_chat' = telegram_chat
    ]_vars

\* a checkpoint was written while the table also held a row outside the
\* timetable (obsolete, or of another group) with an older last_checked
C14_Witness ==
  /\ pc = "run" /\ outcome = "returned"
  /\ \E i \in LessonIds(timetable) :
       lesson[i].last_checked = now /\ lesson[i].last_checked > lesson[i].last_updated
  /\ \E j \in 1..Len(lesson) :
       j \notin LessonIds(timetable) /\ lesson[j].last_checked < now

\* C15 - Registry frame: while a batch is notified, a registry row changes
\* only in a send step, only its flag, only from true to false, and only for
\* the chat whose send raised a permanent failure in that step; a successful
\* or transiently failed send changes nothing, and no row is added or removed.
C15_RegistryFrame ==
  [][ ~RollbackStep =>
        /\ DOMAIN telegram_chat' = DOMAIN telegram_chat
        /\ \A c \in DOMAIN telegram_chat :
             telegram_chat'[c] # telegram_chat[c] =>
               /\ pc = "chats"
               /\ telegram_chat[c].subscribed
               /\ telegram_chat'[c] = [telegram_chat[c] EXCEPT !.subscribed = FALSE]
               /\ attempts' \ attempts = {<<day_num, c, "permanent">>}
        /\ (pc = "chats" /\ OfKind(attempts' \ attempts, "permanent") = {})
             => telegram_chat' = telegram_chat
    ]_vars

\* one chat was unsubscribed by a permanent failure, another chat of the same
\* batch failed transiently and kept its flag
C15_Witness ==
  /\ outcome = "raised"
  /\ \E c1, c2 \in ChatIds :
       /\ c1 # c2
       /\ \E d \in Days : <<d, c1, "permanent">> \in attempts
       /\ \E d \in Days : <<d, c2, "transient">> \in attempts
       /\ ~telegram_chat[c1].subscribed
       /\ telegram_chat[c2].subscribed

\* ------------------------------------------- compose_message on its own
\* day 0 of the timetable holds any set of lesson numbers up to MaxSlot
ComposeDays ==
  UNION {[S -> {<<1, c>> : c \in Contents}] : S \in SUBSET (0..MaxSlot)}

ComposeInit ==
  /\ lesson = <<>>
  /\ telegram_chat = [c \in ChatIds |-> [group_id |-> "G1", subscribed |-> TRUE]]
  /\ committed = [lesson |-> lesson, telegram_chat |-> telegram_chat]
  /\ now = 1
  /\ pc = "days"
  /\ group = "G1" /\ week = "W1"
  /\ timetable \in {[d \in Days |-> IF d = 0 THEN e ELSE <<>>] : e \in ComposeDays}
  /\ updated_days = {0} /\ subscribers = ChatIds
  /\ days_left = {0} /\ day_num = 0 /\ chats_left = {}
  /\ attempts = {}
  /\ outcome = "none"
  /\ failures = {}
  /\ processed = {<<"G1", "W1">>}

SpecCompose == ComposeInit /\ [][NextDay]_vars

\* the line compose_message is to write for lesson number n of a day entry
LineOf(day, n) ==
  IF n \notin DOMAIN day THEN <<n + 1, "-">>
  ELSE IF day[n][2][1] = "" THEN <<n + 1, day[n][2][2]>>
  ELSE <<n + 1, day[n][2][2], day[n][2][1]>>

\* C16 (as stated) - Message slot coverage: the message of an affected day
\* with slots S has exactly one lesson line for every slot index from 1 to
\* max(S), ascending, placeholder for a missing slot, name plus non-empty
\* classroom for a present one.
C16_SlotsFrom1 ==
  (pc # "days" /\ DOMAIN timetable[day_num] # {}) =>
    LET day == timetable[day_num]
        msg == compose_message(timetable, day_num)
    IN  /\ pc = "chats"
        /\ Len(msg) = Max(DOMAIN day)
        /\ \A n \in 1..Max(DOMAIN day) :
             /\ Len(msg[n]) = Len(LineOf(day, n))
             /\ \A k \in 2..Len(msg[n]) : msg[n][k] = LineOf(day, n)[k]

\* C16 (amended) - Message slot coverage: for a day with slots S and
\* max(S) <= 8 the message has exactly one lesson line for every lesson
\* number from 0 to max(S), ascending; the line of lesson number n carries
\* the keycap n + 1; a missing number gets the placeholder name and no
\* classroom, a present one its name, plus its classroom when that is not
\* empty. For max(S) >= 9 (or S empty) no message is composed: the call
\* raises and the batch ends without a send.
C16_SlotCoverage ==
  pc # "days" =>
    LET day == timetable[day_num] IN
    IF day # <<>> /\ Max(DOMAIN day) <= 8
    THEN /\ pc = "chats"
         /\ Len(compose_message(timetable, day_num)) = Max(DOMAIN day) + 1
         /\ \A n \in 0..Max(DOMAIN day) :
              compose_message(timetable, day_num)[n + 1] = LineOf(day, n)
    ELSE pc = "run" /\ outcome = "raised" /\ attempts = {}

\* a message for lessons 1 and 3: lesson numbers 0 and 2 get placeholders,
\* lesson 1 has a classroom, lesson 3 has none
C16_Witness ==
  /\ pc = "chats"
  /\ DOMAIN timetable[day_num] = {1, 3}
  /\ timetable[day_num][1][2] = <<"101", "Math">>
  /\ timetable[day_num][3][2] = <<"", "PE">>
  /\ compose_message(timetable, day_num)
       = << <<1, "-">>, <<2, "Math", "101">>, <<3, "-">>, <<4, "PE">> >>

\* C17 - Recipient snapshot: the recipient set is read once, in the select
\* step, before any send, and stays fixed while the batch is sent; every
\* send is the first attempt for its (day, recipient) pair; and when the
\* batch reaches its checkpoint (no non-permanent failure), the attempted
\* pairs are exactly affected days x recipients active at the start, so a
\* recipient unsubscribed on one day was still attempted on every other day.
C17_RecipientSnapshot ==
  [][ ~RollbackStep =>
        /\ SelectStep => /\ attempts = {}
                         /\ subscribers' = ActiveSubscribers(telegram_chat, group)
        /\ (Sending /\ pc' \in {"days", "chats"}) => subscribers' = subscribers
        /\ pc = "chats" =>
             \E c \in subscribers, k \in {"ok", "permanent", "transient"} :
               /\ <<day_num, c>> \notin Pairs(attempts)
               /\ attempts' = attempts \cup {<<day_num, c, k>>}
        /\ CheckpointStep =>
             /\ Pairs(attempts) = updated_days \X subscribers
             /\ Cardinality(attempts) = Cardinality(updated_days \X subscribers)
             /\ \A a \in OfKind(attempts, "permanent") :
                  /\ ~telegram_chat[a[2]].subscribed
                  /\ \A d \in updated_days : <<d, a[2]>> \in Pairs(attempts)
    ]_vars

\* a batch with two affected days returned; one chat failed permanently on
\* day 0 and was sent day 1 all the same
C17_Witness ==
  /\ pc = "run" /\ outcome = "returned"
  /\ updated_days = {0, 1}
  /\ \E c \in ChatIds :
       /\ <<0, c, "permanent">> \in attempts
       /\ <<1, c, "ok">> \in attempts
       /\ ~telegram_chat[c].subscribed

\* C18 - Checkpoint independent of delivery: whenever the notify and
\* checkpoint pass of a batch has returned normally, no lesson of the
\* processed timetable is pending and the selector gives no day for the
\* group and week, whether or not any message was delivered.
C18_CheckpointWithoutDelivery ==
  (pc = "run" /\ outcome = "returned") =>
    /\ AffectedDays(lesson, group, week) = {}
    /\ \A i \in LessonIds(timetable) : ~IsPending(lesson[i])

\* the batch had an affected day and returned, yet no send succeeded: the
\* group had no active subscriber, or every attempt failed permanently
C18_Witness ==
  /\ pc = "run" /\ outcome = "returned"
  /\ updated_days # {}
  /\ OfKind(attempts, "ok") = {}
  /\ attempts # {}
  /\ \E i \in LessonIds(timetable) :
       lesson[i].day_num \in updated_days /\ lesson[i].last_updated > lesson[i].created_at

\* the same with no active subscriber at all
C18_WitnessNoSubscriber ==
  /\ pc = "run" /\ outcome = "returned"
  /\ updated_days # {} /\ subscribers = {} /\ attempts = {}

====
